---- MODULE Spec2Model ----
(***************************************************************************)
(* Ownership index (cryptArray / "/citable") of fs/crypto/crypto.c and the *)
(* block encrypt / decrypt paths that reload, search, insert into and      *)
(* persist it.                                                             *)
(***************************************************************************)
EXTENDS Integers, Sequences, FiniteSets, TLC

(* ------------------------------ bounds -------------------------------- *)
\* #define DEDUP_TABLE_SIZE 1024*1024: the macro's text is a product without
\* parentheses; its left and right factors, scaled down
TableSizeLeft == 2
TableSizeRight == 1
\* bytes of a fingerprint (16 in the source, scaled down)
FINGER_LEN == 2
\* files being written and read, inode numbers 1..MaxIno; each file has
\* its own writeback / readahead worker
MaxIno == 2
\* logical block numbers 0 .. MaxLblk
MaxLblk == 2

(* -------------------------- program constants ------------------------- *)
FSCRYPT_CONTENTS_ALIGNMENT == 16
\* each factor of #define DEDUP_TABLE_SIZE 1024*1024 as the source has it
SourceTableFactor == 1024
blocksize == 4096

\* DEDUP_TABLE_SIZE where the macro's expansion is the product: the array
\* size, the loop limits, hashIndex %= DEDUP_TABLE_SIZE
DEDUP_TABLE_SIZE == TableSizeLeft * TableSizeRight

Inodes == 1 .. MaxIno
\* the worker of file p is named p; it passes inode p to the entry points
Procs == Inodes
Slots == 0 .. (DEDUP_TABLE_SIZE - 1)
\* fingerprint bytes: NUL and a non-NUL value
Bytes == {0, 1}
Fingerprints == [1 .. FINGER_LEN -> Bytes]
\* lengths handed to fscrypt_crypt_block: zero, misaligned, aligned
Lens == {0, FSCRYPT_CONTENTS_ALIGNMENT \div 2, FSCRYPT_CONTENTS_ALIGNMENT}
\* lengths handed to fscrypt_decrypt_pagecache_blocks
PageLens == {0, FSCRYPT_CONTENTS_ALIGNMENT, blocksize}

VARIABLES
    charSigned,   \* whether plain char is signed in this build
    cryptArray,   \* struct Cryptitem *cryptArray[DEDUP_TABLE_SIZE]
    citable,      \* records of the backing file "/citable"
    pc,           \* position of each worker inside its operation
    op,           \* locals of each worker's operation, see NoOp
    calls         \* direct calls of crypttable_insert made so far (IndexSpec)

shared == <<charSigned, cryptArray, citable>>
locals == <<pc, op>>
hist == <<calls>>
vars == <<charSigned, cryptArray, citable, pc, op, calls>>

(* --------------------------- struct Cryptitem ------------------------- *)
ZeroFinger == [i \in 1 .. FINGER_LEN |-> 0]
\* a NULL pointer in cryptArray
NullItem == [present |-> FALSE, fingerprint_crypt |-> ZeroFinger, ino |-> 0]
Cryptitem(f, i) == [present |-> TRUE, fingerprint_crypt |-> f, ino |-> i]
\* contents a freshly kmalloc'ed fingerprint_crypt may hold (not initialised)
KmallocFill == {[i \in 1 .. FINGER_LEN |-> b] : b \in Bytes}

(* ------------------------------ hashCrypt ----------------------------- *)
RECURSIVE Pow2Mod(_, _)
Pow2Mod(n, m) == IF n = 0 THEN 1 % m ELSE (2 * Pow2Mod(n - 1, m)) % m

\* (size_t)finger[i]: value of the converted char as a mathematical integer
\* offset from a multiple of 2^64 (negative when the char sign-extends)
CharToSizeT(b, signed) == IF signed /\ b >= 128 THEN b - 256 ELSE b

RECURSIVE SumChars(_, _, _)
SumChars(finger, i, signed) ==
    IF i > FINGER_LEN THEN 0
    ELSE CharToSizeT(finger[i], signed) + SumChars(finger, i + 1, signed)

\* hash += ... wraps modulo 2^64; then hash % DEDUP_TABLE_SIZE expands to
\* hash % 1024*1024, which C groups as (hash % 1024) * 1024
hashCryptOf(finger, signed, left, right) ==
    LET s == SumChars(finger, 1, signed)
    IN  (IF s >= 0 THEN s % left
         ELSE (Pow2Mod(64, left) + (s % left)) % left) * right

hashCrypt(finger) ==
    hashCryptOf(finger, charSigned, TableSizeLeft, TableSizeRight)

(* ---------------------------- strncmp/strncpy ------------------------- *)
RECURSIVE strncmpFrom(_, _, _, _)
strncmpFrom(a, b, i, n) ==
    IF i > n THEN 0
    ELSE IF a[i] # b[i] THEN (IF a[i] < b[i] THEN -1 ELSE 1)
    ELSE IF a[i] = 0 THEN 0
    ELSE strncmpFrom(a, b, i + 1, n)

strncmp(a, b, n) == strncmpFrom(a, b, 1, n)

\* the n bytes strncpy leaves in the destination
strncpy(src, n) ==
    [i \in 1 .. n |-> IF \E j \in 1 .. i : src[j] = 0 THEN 0 ELSE src[i]]

(* ------------------------------ crypt_search -------------------------- *)
\* hit: an entry was returned; slot: its index; probes: slots examined
\* mutant: the exhaustion guard fires one probe late
RECURSIVE SearchLoop_late(_, _, _, _)
SearchLoop_late(tbl, finger, hashIndex, loop) ==
    IF ~tbl[hashIndex].present
    THEN [hit |-> FALSE, slot |-> hashIndex, probes |-> loop + 1]
    ELSE IF strncmp(tbl[hashIndex].fingerprint_crypt, finger, FINGER_LEN) = 0
    THEN [hit |-> TRUE, slot |-> hashIndex, probes |-> loop + 1]
    ELSE IF loop + 1 > DEDUP_TABLE_SIZE + 1
    THEN [hit |-> FALSE, slot |-> hashIndex, probes |-> loop + 1]
    ELSE SearchLoop_late(tbl, finger, (hashIndex + 1) % DEDUP_TABLE_SIZE,
                         loop + 1)

RECURSIVE SearchLoop(_, _, _, _)
SearchLoop(tbl, finger, hashIndex, loop) ==
    IF ~tbl[hashIndex].present
    THEN [hit |-> FALSE, slot |-> hashIndex, probes |-> loop + 1]
    ELSE IF strncmp(tbl[hashIndex].fingerprint_crypt, finger, FINGER_LEN) = 0
    THEN [hit |-> TRUE, slot |-> hashIndex, probes |-> loop + 1]
    ELSE IF loop + 1 > DEDUP_TABLE_SIZE
    THEN [hit |-> FALSE, slot |-> hashIndex, probes |-> loop + 1]
    ELSE SearchLoop(tbl, finger, (hashIndex + 1) % DEDUP_TABLE_SIZE, loop + 1)

\* mutant: the search never finds anything
crypt_search_blind(tbl, finger) ==
    [hit |-> FALSE, slot |-> hashCrypt(finger), probes |-> 1]

crypt_search(tbl, finger) == SearchLoop(tbl, finger, hashCrypt(finger), 0)

\* the struct the returned pointer points to (NullItem for a NULL return)
SearchItem(tbl, finger) ==
    LET r == crypt_search(tbl, finger)
    IN  IF r.hit THEN tbl[r.slot] ELSE NullItem

(* ---------------------------- crypttable_insert ----------------------- *)
Live(item) == item.present /\ item.ino > 0

\* mutant: no probing, the slot the hash names is taken as it is
InsertLoop_first(tbl, hashIndex, loop) ==
    [ret |-> 0, slot |-> hashIndex, probes |-> 1]

RECURSIVE InsertLoop(_, _, _)
InsertLoop(tbl, hashIndex, loop) ==
    IF tbl[hashIndex].present /\ tbl[hashIndex].ino > 0
    THEN IF loop + 1 > DEDUP_TABLE_SIZE
         THEN [ret |-> 1, slot |-> (hashIndex + 1) % DEDUP_TABLE_SIZE,
               probes |-> loop + 1]
         ELSE InsertLoop(tbl, (hashIndex + 1) % DEDUP_TABLE_SIZE, loop + 1)
    ELSE [ret |-> 0, slot |-> hashIndex, probes |-> loop + 1]

\* mutant: a collision at the first slot probed is reported as success and
\* nothing is stored
crypttable_insert_dropping(tbl, finger, ino) ==
    IF Live(tbl[hashCrypt(finger)])
    THEN [ret |-> 0, tbl |-> tbl]
    ELSE [ret |-> 0,
          tbl |-> [tbl EXCEPT ![hashCrypt(finger)] =
                      Cryptitem(strncpy(finger, FINGER_LEN), ino)]]

crypttable_insert(tbl, finger, ino) ==
    LET r == InsertLoop(tbl, hashCrypt(finger), 0)
    IN  IF r.ret = 1
        THEN [ret |-> 1, tbl |-> tbl]
        ELSE [ret |-> 0,
              tbl |-> [tbl EXCEPT ![r.slot] =
                          Cryptitem(strncpy(finger, FINGER_LEN), ino)]]

\* cryptArray as the process starts: every pointer NULL
NullTable == [s \in Slots |-> NullItem]

(* --------------------- bootstrap, reload and persist ------------------ *)
\* every NULL slot is kmalloc'ed and only its ino is set, to 0
Bootstrap(tbl, fill) ==
    [s \in Slots |-> IF tbl[s].present THEN tbl[s] ELSE Cryptitem(fill[s], 0)]

\* kernel_read of one record per slot; a read past the end of the file
\* returns no bytes and leaves the slot as it was
ReadTable(tbl, file) ==
    [s \in Slots |->
        IF s + 1 <= Len(file)
        THEN Cryptitem(file[s + 1].fingerprint_crypt, file[s + 1].ino)
        ELSE tbl[s]]

\* mutant: the write loop stops one slot short
WriteTable_short(tbl) ==
    [k \in 1 .. (DEDUP_TABLE_SIZE - 1) |->
        [fingerprint_crypt |-> tbl[k - 1].fingerprint_crypt,
         ino |-> tbl[k - 1].ino]]

\* kernel_write of every slot from offset 0
WriteTable(tbl) ==
    [k \in 1 .. DEDUP_TABLE_SIZE |->
        [fingerprint_crypt |-> tbl[k - 1].fingerprint_crypt,
         ino |-> tbl[k - 1].ino]]

Reload(tbl, file, fill) == ReadTable(Bootstrap(tbl, fill), file)

\* the encrypt post-step run from start to end with nothing in between:
\* bootstrap and kernel_read loops, crypt_search, crypttable_insert on a
\* miss, kernel_write loop; the array and the file it leaves
EncryptPostStep(tbl, file, finger, ino, fill) ==
    LET loaded == Reload(tbl, file, fill)
        after == IF crypt_search(loaded, finger).hit
                 THEN loaded
                 ELSE crypttable_insert(loaded, finger, ino).tbl
    IN  [tbl |-> after, file |-> WriteTable(after)]

(* ------------------------- a worker's locals -------------------------- *)
\* kind:   the entry point called
\* inode:  the inode the operation works under (0: none)
\* digest: what hash_page_data computed of the page
\* found:  crypt_search returned an entry
\* insRet: what crypttable_insert returned (-1: not called)
\* ret:    the operation's return value ("none": not returned yet)
\* work:   index work done so far: "open" (filp_open of /citable), "reload",
\*         "search", "recovery" (read and lookup of the recovery index),
\*         "close" (filp_close)
\* overlap: another worker's index operation was in progress during this one
NoOp == [kind |-> "none", inode |-> 0, digest |-> ZeroFinger, found |-> FALSE,
         insRet |-> -1, ret |-> "none", work |-> {}, overlap |-> FALSE]

(* -------------------------------- Init -------------------------------- *)
Init ==
    /\ charSigned \in BOOLEAN
    /\ cryptArray = NullTable
    /\ citable = <<>>
    /\ pc = [p \in Procs |-> "idle"]
    /\ op = [p \in Procs |-> NoOp]
    /\ calls = <<>>

(* ------------------------------ operations ---------------------------- *)
\* a returned operation's caller reads the result before anything else runs
NoneDone == \A q \in Procs : pc[q] # "done"
Busy(p) == pc[p] \notin {"idle", "done"}
Overlap(p) == \E q \in Procs \ {p} : Busy(q)
\* worker p enters its operation with locals o; the operations in progress
\* are marked as overlapped by it
Enter(p, o) ==
    [q \in Procs |->
        IF q = p THEN [o EXCEPT !.overlap = Overlap(p)]
        ELSE IF Busy(q) THEN [op[q] EXCEPT !.overlap = TRUE]
        ELSE op[q]]

\* an operation that returns at once: its locals stay readable in "done"
Returned(p, k, r, w) ==
    /\ pc' = [pc EXCEPT ![p] = "done"]
    /\ op' = [op EXCEPT ![p] = [NoOp EXCEPT !.kind = k, !.ret = r, !.work = w]]

\* mutant: the cipher's result is looked at only after the reload
EncryptBlock_reloading(p, d, len, reqOK, cipherOK, fill) ==
    /\ pc[p] = "idle"
    /\ NoneDone
    /\ IF len <= 0 \/ len % FSCRYPT_CONTENTS_ALIGNMENT # 0
       THEN Returned(p, "encrypt", "EINVAL", {}) /\ UNCHANGED <<shared, hist>>
       ELSE IF ~reqOK
       THEN Returned(p, "encrypt", "ENOMEM", {}) /\ UNCHANGED <<shared, hist>>
       ELSE IF ~cipherOK
       THEN /\ cryptArray' = Reload(cryptArray, citable, fill)
            /\ Returned(p, "encrypt", "CipherError", {"open", "reload"})
            /\ UNCHANGED <<charSigned, citable, hist>>
       ELSE /\ cryptArray' = Reload(cryptArray, citable, fill)
            /\ pc' = [pc EXCEPT ![p] = "enc_search"]
            /\ op' = Enter(p, [NoOp EXCEPT !.kind = "encrypt", !.inode = p,
                                            !.digest = d,
                                            !.work = {"open", "reload"}])
            /\ UNCHANGED <<charSigned, citable, hist>>

\* fscrypt_crypt_block, rw = FS_ENCRYPT: length checks, request allocation,
\* the transform, then filp_open, the bootstrap loop and the kernel_read
\* loop.  The inode is the worker's file; d is what hash_page_data computes
\* of the ciphertext in dest_page.
EncryptBlock(p, d, len, reqOK, cipherOK, fill) ==
    /\ pc[p] = "idle"
    /\ NoneDone
    /\ IF len <= 0 \/ len % FSCRYPT_CONTENTS_ALIGNMENT # 0
       THEN Returned(p, "encrypt", "EINVAL", {}) /\ UNCHANGED <<shared, hist>>
       ELSE IF ~reqOK
       THEN Returned(p, "encrypt", "ENOMEM", {}) /\ UNCHANGED <<shared, hist>>
       ELSE IF ~cipherOK
       THEN Returned(p, "encrypt", "CipherError", {})
            /\ UNCHANGED <<shared, hist>>
       ELSE /\ cryptArray' = Reload(cryptArray, citable, fill)
            /\ pc' = [pc EXCEPT ![p] = "enc_search"]
            /\ op' = Enter(p, [NoOp EXCEPT !.kind = "encrypt", !.inode = p,
                                            !.digest = d,
                                            !.work = {"open", "reload"}])
            /\ UNCHANGED <<charSigned, citable, hist>>

\* hash_page_data(dest_page, digest); if (!crypt_search(digest))
EncSearch(p) ==
    /\ pc[p] = "enc_search"
    /\ NoneDone
    /\ LET r == crypt_search(cryptArray, op[p].digest)
       IN  /\ op' = [op EXCEPT ![p].found = r.hit,
                               ![p].work = @ \cup {"search"}]
           /\ pc' = [pc EXCEPT ![p] =
                        IF r.hit THEN "enc_persist" ELSE "enc_insert"]
    /\ UNCHANGED <<shared, hist>>

\* crypttable_insert(digest, inode->i_ino); the return value is dropped
EncInsert(p) ==
    /\ pc[p] = "enc_insert"
    /\ NoneDone
    /\ LET r == crypttable_insert(cryptArray, op[p].digest, op[p].inode)
       IN  /\ cryptArray' = r.tbl
           /\ op' = [op EXCEPT ![p].insRet = r.ret]
    /\ pc' = [pc EXCEPT ![p] = "enc_persist"]
    /\ UNCHANGED <<charSigned, citable, hist>>

\* the kernel_write loop, filp_close, return 0
EncPersist(p) ==
    /\ pc[p] = "enc_persist"
    /\ NoneDone
    /\ citable' = WriteTable(cryptArray)
    /\ op' = [op EXCEPT ![p].ret = "OK", ![p].work = @ \cup {"close"}]
    /\ pc' = [pc EXCEPT ![p] = "done"]
    /\ UNCHANGED <<charSigned, cryptArray, hist>>

\* fscrypt_crypt_block, rw = FS_DECRYPT: the recovery-index read and lookup
\* come first, then the length checks, the request and the transform
CryptBlockDecrypt(len, reqOK, cipherOK) ==
    [work |-> {"recovery"},
     ret |-> IF len <= 0 \/ len % FSCRYPT_CONTENTS_ALIGNMENT # 0
             THEN "EINVAL"
             ELSE IF ~reqOK THEN "ENOMEM"
             ELSE IF ~cipherOK THEN "CipherError"
             ELSE "OK"]

\* fscrypt_decrypt_block_inplace
DecryptBlockInplace(p, len, reqOK, cipherOK) ==
    /\ pc[p] = "idle"
    /\ NoneDone
    /\ LET r == CryptBlockDecrypt(len, reqOK, cipherOK)
       IN  Returned(p, "decrypt_block", r.ret, r.work)
    /\ UNCHANGED <<shared, hist>>

\* mutant: the page-level decrypt also runs the encrypt path's write loop
DecryptPage_writing(p, d, len, locked, fill) ==
    /\ pc[p] = "idle"
    /\ NoneDone
    /\ IF ~locked \/ len <= 0 \/ len % blocksize # 0
       THEN Returned(p, "decrypt_page", "EINVAL", {"open"})
            /\ UNCHANGED <<shared, hist>>
       ELSE /\ cryptArray' = Reload(cryptArray, citable, fill)
            /\ citable' = WriteTable(cryptArray')
            /\ pc' = [pc EXCEPT ![p] = "dec_search"]
            /\ op' = Enter(p, [NoOp EXCEPT !.kind = "decrypt_page",
                                            !.inode = p, !.digest = d,
                                            !.work = {"open", "reload"}])
            /\ UNCHANGED <<charSigned, hist>>

\* fscrypt_decrypt_pagecache_blocks: filp_open, the argument checks, the
\* bootstrap loop and the kernel_read loop.  page->mapping->host is the
\* worker's file; d is what hash_page_data computes of the page, which may
\* be a block some other file's encrypt wrote.
DecryptPage(p, d, len, locked, fill) ==
    /\ pc[p] = "idle"
    /\ NoneDone
    /\ IF ~locked \/ len <= 0 \/ len % blocksize # 0
       THEN Returned(p, "decrypt_page", "EINVAL", {"open"})
            /\ UNCHANGED <<shared, hist>>
       ELSE /\ cryptArray' = Reload(cryptArray, citable, fill)
            /\ pc' = [pc EXCEPT ![p] = "dec_search"]
            /\ op' = Enter(p, [NoOp EXCEPT !.kind = "decrypt_page",
                                            !.inode = p, !.digest = d,
                                            !.work = {"open", "reload"}])
            /\ UNCHANGED <<charSigned, citable, hist>>

\* crypt_item = crypt_search(digest_c); if (crypt_item) inode =
\* f2fs_iget(sb, crypt_item->ino): the inode number decryption goes on with
OwnershipStep(tbl, finger, host) ==
    LET r == crypt_search(tbl, finger)
    IN  IF r.hit THEN tbl[r.slot].ino ELSE host

\* the ownership step, then the loop over the page's blocks (one block of
\* blocksize bytes per page)
DecSearch(p, reqOK, cipherOK) ==
    /\ pc[p] = "dec_search"
    /\ NoneDone
    /\ LET r == crypt_search(cryptArray, op[p].digest)
           b == CryptBlockDecrypt(blocksize, reqOK, cipherOK)
       IN  op' = [op EXCEPT ![p].found = r.hit,
                            ![p].inode =
                                OwnershipStep(cryptArray, op[p].digest, @),
                            ![p].work = @ \cup {"search"} \cup b.work,
                            ![p].ret = b.ret]
    /\ pc' = [pc EXCEPT ![p] = "done"]
    /\ UNCHANGED <<shared, hist>>

\* the caller goes on; the worker is free for the next operation
Return(p) ==
    /\ pc[p] = "done"
    /\ pc' = [pc EXCEPT ![p] = "idle"]
    /\ op' = [op EXCEPT ![p] = NoOp]
    /\ UNCHANGED <<shared, hist>>

\* the process ends and starts again: cryptArray is all NULL, the file stays
Restart ==
    /\ \A p \in Procs : ~Busy(p)
    /\ cryptArray # NullTable
    /\ cryptArray' = NullTable
    /\ pc' = [p \in Procs |-> "idle"]
    /\ op' = [p \in Procs |-> NoOp]
    /\ UNCHANGED <<charSigned, citable, hist>>

Next ==
    \/ \E p \in Procs, d \in Fingerprints, len \in Lens,
          reqOK \in BOOLEAN, cipherOK \in BOOLEAN,
          fill \in [Slots -> KmallocFill] :
          EncryptBlock(p, d, len, reqOK, cipherOK, fill)
    \/ \E p \in Procs : EncSearch(p)
    \/ \E p \in Procs : EncInsert(p)
    \/ \E p \in Procs : EncPersist(p)
    \/ \E p \in Procs, len \in Lens, reqOK \in BOOLEAN, cipherOK \in BOOLEAN :
          DecryptBlockInplace(p, len, reqOK, cipherOK)
    \/ \E p \in Procs, d \in Fingerprints, len \in PageLens,
          locked \in BOOLEAN, fill \in [Slots -> KmallocFill] :
          DecryptPage(p, d, len, locked, fill)
    \/ \E p \in Procs, reqOK \in BOOLEAN, cipherOK \in BOOLEAN :
          DecSearch(p, reqOK, cipherOK)
    \/ \E p \in Procs : Return(p)
    \/ Restart

Spec == Init /\ [][Next]_vars

\* the operations one at a time, as under one mutual-exclusion domain: no
\* step leaves two workers inside an operation
OneAtATime == Cardinality({p \in Procs : Busy(p)}) <= 1

SerialNext ==
    \/ \E p \in Procs, d \in Fingerprints, len \in Lens,
          reqOK \in BOOLEAN, cipherOK \in BOOLEAN,
          fill \in [Slots -> KmallocFill] :
          EncryptBlock(p, d, len, reqOK, cipherOK, fill) /\ OneAtATime'
    \/ \E p \in Procs : EncSearch(p) /\ OneAtATime'
    \/ \E p \in Procs : EncInsert(p) /\ OneAtATime'
    \/ \E p \in Procs : EncPersist(p) /\ OneAtATime'
    \/ \E p \in Procs, len \in Lens, reqOK \in BOOLEAN, cipherOK \in BOOLEAN :
          DecryptBlockInplace(p, len, reqOK, cipherOK) /\ OneAtATime'
    \/ \E p \in Procs, d \in Fingerprints, len \in PageLens,
          locked \in BOOLEAN, fill \in [Slots -> KmallocFill] :
          DecryptPage(p, d, len, locked, fill) /\ OneAtATime'
    \/ \E p \in Procs, reqOK \in BOOLEAN, cipherOK \in BOOLEAN :
          DecSearch(p, reqOK, cipherOK) /\ OneAtATime'
    \/ \E p \in Procs : Return(p) /\ OneAtATime'
    \/ Restart /\ OneAtATime'

SerialSpec == Init /\ [][SerialNext]_vars

(* ------------- the index functions called directly (IndexSpec) -------- *)
\* crypttable_insert calls made on one index, at most one more than it holds
MaxCalls == DEDUP_TABLE_SIZE + 1

\* the index as the process starts, or after a bootstrap loop has run
IndexInit ==
    /\ charSigned \in BOOLEAN
    /\ cryptArray \in {NullTable} \cup
                      {Bootstrap(NullTable, fill) : fill \in [Slots -> KmallocFill]}
    /\ citable = <<>>
    /\ pc = [p \in Procs |-> "idle"]
    /\ op = [p \in Procs |-> NoOp]
    /\ calls = <<>>

\* crypttable_insert(finger, ino); before is the index the call ran on
IndexInsert(finger, ino) ==
    /\ Len(calls) < MaxCalls
    /\ LET r == crypttable_insert(cryptArray, finger, ino)
       IN  /\ cryptArray' = r.tbl
           /\ calls' = Append(calls, [finger |-> finger, ino |-> ino,
                                      ret |-> r.ret, before |-> cryptArray])
    /\ UNCHANGED <<charSigned, citable, pc, op>>

IndexNext == \E finger \in Fingerprints, ino \in Inodes : IndexInsert(finger, ino)

IndexSpec == IndexInit /\ [][IndexNext]_vars

(* ---------------- hashCrypt at the source's size (HashSpec) ------------ *)
\* byte values around 0, the char sign boundary and the top of the range
HashBytes == {0, 1, 2, 127, 128, 129, 254, 255}

\* hashCrypt(finger) as compiled with the source's DEDUP_TABLE_SIZE; calls
\* holds the call last made and its result
HashCall(finger) ==
    /\ calls' = <<[finger |-> finger,
                   hash |-> hashCryptOf(finger, charSigned, SourceTableFactor,
                                        SourceTableFactor)]>>
    /\ UNCHANGED <<charSigned, cryptArray, citable, pc, op>>

HashNext == \E finger \in [1 .. FINGER_LEN -> HashBytes] : HashCall(finger)

HashSpec == Init /\ [][HashNext]_vars

(* ------------- the logical block number of the IV (IvSpec) ------------ *)
Lblks == 0 .. MaxLblk
\* what finger_crypt_search(digest) returns: NULL, or an item with lblk_num
RecoveryResults ==
    {[found |-> FALSE, lblk_num |-> 0]} \cup
    {[found |-> TRUE, lblk_num |-> l] : l \in Lblks}

\* mutant: the recovered block number is ignored
IvLblk_caller(rw, lblk_num, rec) == lblk_num

\* lblk_num as fscrypt_generate_iv receives it: if (rw == FS_DECRYPT) and
\* finger_crypt_item is not NULL, lblk_num = finger_crypt_item->lblk_num
IvLblk(rw, lblk_num, rec) ==
    IF rw = "FS_DECRYPT" /\ rec.found THEN rec.lblk_num ELSE lblk_num

\* one call of fscrypt_crypt_block up to fscrypt_generate_iv; calls holds
\* the call last made and the block number its IV was derived from (-1
\* when a length check returned before the derivation)
CryptBlockIv(rw, lblk_num, rec, len) ==
    /\ calls' = <<[rw |-> rw, lblk_num |-> lblk_num, rec |-> rec, len |-> len,
                   iv |-> IF len <= 0 \/ len % FSCRYPT_CONTENTS_ALIGNMENT # 0
                          THEN -1
                          ELSE IvLblk(rw, lblk_num, rec)]>>
    /\ UNCHANGED <<charSigned, cryptArray, citable, pc, op>>

IvNext ==
    \E rw \in {"FS_ENCRYPT", "FS_DECRYPT"}, lblk_num \in Lblks,
       rec \in RecoveryResults, len \in Lens :
       CryptBlockIv(rw, lblk_num, rec, len)

IvSpec == Init /\ [][IvNext]_vars

(* ------------------------- reading the index -------------------------- *)
LiveSlots(tbl) == {s \in Slots : Live(tbl[s])}
\* the file's records as an array, absent records as NULL
FileTable == ReadTable(NullTable, citable)
\* the in-memory array and the file agree slot by slot.  A record the file
\* does not hold is taken to agree with a NULL slot and with a slot that was
\* only bootstrapped (ino 0), the reading most favourable to agreement.
MirrorEqual ==
    \A s \in Slots :
        IF s + 1 <= Len(citable) /\ cryptArray[s].present
        THEN /\ cryptArray[s].fingerprint_crypt = citable[s + 1].fingerprint_crypt
             /\ cryptArray[s].ino = citable[s + 1].ino
        ELSE ~Live(cryptArray[s]) /\ ~Live(FileTable[s])
\* the owner crypt_search finds for finger once the process has restarted
\* and the next operation has reloaded the index from file
OwnerAfterRestart(file, finger, fill) ==
    SearchItem(Reload(NullTable, file, fill), finger).ino
\* a worker's operation has returned and its result is being read
Done(p, k) == pc[p] = "done" /\ op[p].kind = k

(* ------------------------------- claims ------------------------------- *)
\* C1: once an encrypt block operation under inode I has returned success
\* with ciphertext fingerprint X, crypt_search(X) returns the entry (X, I),
\* and the ownership step of a page-level decrypt of X, whatever inode J the
\* page belongs to, resolves to I.
C1_OwnershipResolution ==
    \A p \in Procs :
        (Done(p, "encrypt") /\ op[p].ret = "OK") =>
            /\ SearchItem(cryptArray, op[p].digest)
                   = Cryptitem(op[p].digest, op[p].inode)
            /\ \A j \in Inodes, fill \in [Slots -> KmallocFill] :
                   OwnershipStep(Reload(cryptArray, citable, fill),
                                 op[p].digest, j) = op[p].inode

\* C2: two different fingerprints inserted one after the other, with owners
\* > 0, into an index with at least two non-live slots are both found by
\* crypt_search, each with its own fingerprint and owner.
C2_DistinctInserts ==
    \A k \in 1 .. (Len(calls) - 1) :
        LET a == calls[k]
            b == calls[k + 1]
        IN  (/\ k + 1 = Len(calls)
             /\ a.finger # b.finger
             /\ Cardinality(Slots \ LiveSlots(a.before)) >= 2)
            => /\ SearchItem(cryptArray, a.finger) = Cryptitem(a.finger, a.ino)
               /\ SearchItem(cryptArray, b.finger) = Cryptitem(b.finger, b.ino)

\* C3: an encrypt that inserted its fingerprint and returned success, while
\* neither the file nor the array holds a live entry under the fingerprint it
\* stored (a lost update), ran interleaved with another worker's operation.
LostUpdate(p) ==
    /\ Done(p, "encrypt")
    /\ op[p].ret = "OK"
    /\ op[p].insRet = 0
    /\ \A s \in Slots :
          /\ Live(FileTable[s]) =>
                FileTable[s].fingerprint_crypt # strncpy(op[p].digest, FINGER_LEN)
          /\ Live(cryptArray[s]) =>
                cryptArray[s].fingerprint_crypt # strncpy(op[p].digest, FINGER_LEN)

C3_LostUpdateOnlyInterleaved == \A p \in Procs : LostUpdate(p) => op[p].overlap

\* two encrypts overlap: one has returned success with its entry lost, the
\* other has done its search and insert and is about to persist the array
\* and return success, after which the file holds no entry of the first
C3_LostUpdateReached ==
    \E p \in Procs :
        /\ LostUpdate(p)
        /\ \E q \in Procs \ {p} :
              op[q].kind = "encrypt" /\ pc[q] = "enc_persist"

\* C4: in the array and in the file, no two live slots hold the same
\* fingerprint.
OneLivePerFingerprint(tbl) ==
    \A s, t \in LiveSlots(tbl) :
        tbl[s].fingerprint_crypt = tbl[t].fingerprint_crypt => s = t

C4_OneLivePerFingerprint ==
    OneLivePerFingerprint(cryptArray) /\ OneLivePerFingerprint(FileTable)

\* C5: an encrypt whose crypttable_insert returned 1 (index full) does not
\* return success.
C5_IndexFullPropagated ==
    \A p \in Procs :
        (Done(p, "encrypt") /\ op[p].insRet = 1) => op[p].ret # "OK"

\* C6: crypttable_insert returns 1 exactly when every slot is live, and then
\* changes no slot; and DEDUP_TABLE_SIZE + 1 different fingerprints inserted
\* into an index with no live slot succeed DEDUP_TABLE_SIZE times and fail
\* the last time, every earlier entry still being found by crypt_search.
TableAfter(k) == IF k < Len(calls) THEN calls[k + 1].before ELSE cryptArray

C6_CapacityBoundary ==
    /\ \A k \in 1 .. Len(calls) :
          /\ calls[k].ret = 1 <=> LiveSlots(calls[k].before) = Slots
          /\ calls[k].ret = 1 => TableAfter(k) = calls[k].before
    /\ (/\ Len(calls) = DEDUP_TABLE_SIZE + 1
        /\ LiveSlots(calls[1].before) = {}
        /\ \A j, k \in 1 .. Len(calls) :
              j # k => calls[j].finger # calls[k].finger)
       => /\ \A k \in 1 .. DEDUP_TABLE_SIZE :
                /\ calls[k].ret = 0
                /\ SearchItem(cryptArray, calls[k].finger)
                       = Cryptitem(calls[k].finger, calls[k].ino)
          /\ calls[DEDUP_TABLE_SIZE + 1].ret = 1

\* C7: with the operations serialized, the entry an encrypt has inserted is
\* in the file when the encrypt returns, and an owner that a restart, reload
\* and crypt_search find recorded for a fingerprint stays the owner they find
\* after every later step.
C7_Durability ==
    [][/\ \A p \in Procs :
             (pc[p] = "enc_persist" /\ pc'[p] = "done" /\ op[p].insRet = 0)
             => \A fill \in [Slots -> KmallocFill] :
                    OwnerAfterRestart(citable', op[p].digest, fill) = op[p].inode
       /\ citable' # citable =>
             \A f \in Fingerprints, fill \in [Slots -> KmallocFill] :
                 OwnerAfterRestart(citable, f, fill) > 0
                 => OwnerAfterRestart(citable', f, fill)
                        = OwnerAfterRestart(citable, f, fill)]_vars

\* the process has restarted after an insert, the array is all NULL again and
\* another worker's encrypt has since been persisted beside the first entry
C7_RestartedWithEntries ==
    /\ cryptArray = NullTable
    /\ \A p \in Procs : pc[p] = "idle"
    /\ \E s, t \in LiveSlots(FileTable) : FileTable[s].ino # FileTable[t].ino

\* C8: whenever no operation is in progress (right before and right after
\* every operation), the array and the file agree slot by slot.
C8_MirrorIdentical == (\A p \in Procs : ~Busy(p)) => MirrorEqual

\* C9: an operation that returns EINVAL has done no index work: it has not
\* opened the file, reloaded an index or searched one.
C9_ChecksBeforeIndexWork ==
    \A p \in Procs : (pc[p] = "done" /\ op[p].ret = "EINVAL") => op[p].work = {}

\* C10: no step of a decrypt operation, per-block or page-level, changes the
\* file.
DecryptStep(p) ==
    \/ pc[p] = "dec_search" /\ pc'[p] # "dec_search"
    \/ /\ pc[p] = "idle"
       /\ pc'[p] # "idle"
       /\ op'[p].kind \in {"decrypt_page", "decrypt_block"}

C10_DecryptLeavesFile ==
    [][\A p \in Procs : DecryptStep(p) => citable' = citable]_vars

\* a page-level decrypt has found its page's owner in an index read from a
\* populated file
C10_DecryptHit ==
    \E p \in Procs :
        /\ Done(p, "decrypt_page")
        /\ op[p].found
        /\ op[p].ret = "OK"
        /\ LiveSlots(FileTable) # {}

\* C11: when the pair (fingerprint, owner) of an encrypt that has returned
\* success is submitted to the encrypt post-step a second time, what
\* crypt_search returns for the fingerprint and the set of live slots holding
\* the fingerprint as insert stores it are the same after the second
\* submission as after the first, in the array and in the file.
SlotsHolding(tbl, finger) ==
    {s \in LiveSlots(tbl) :
        tbl[s].fingerprint_crypt = strncpy(finger, FINGER_LEN)}

C11_SecondSubmissionNoChange ==
    \A p \in Procs :
        (Done(p, "encrypt") /\ op[p].ret = "OK") =>
            \A fill \in [Slots -> KmallocFill] :
                LET d == op[p].digest
                    second == EncryptPostStep(cryptArray, citable, d,
                                              op[p].inode, fill)
                    file2 == ReadTable(NullTable, second.file)
                IN  /\ SearchItem(second.tbl, d) = SearchItem(cryptArray, d)
                    /\ SlotsHolding(second.tbl, d) = SlotsHolding(cryptArray, d)
                    /\ SlotsHolding(file2, d) = SlotsHolding(FileTable, d)
                    /\ Cardinality(SlotsHolding(second.tbl, d)) <= 1

\* an encrypt has inserted its pair, persisted it and returned success, and
\* a slot is still free for a second copy
C11_FirstSubmissionRecorded ==
    \E p \in Procs :
        /\ Done(p, "encrypt")
        /\ op[p].ret = "OK"
        /\ op[p].insRet = 0
        /\ SlotsHolding(FileTable, op[p].digest) # {}
        /\ LiveSlots(cryptArray) # Slots

\* C12: a per-block decrypt whose fingerprint is found in the recovery index
\* derives its IV from the recovered block number, whatever the caller
\* passed; one whose fingerprint is not found derives it from the caller's
\* block number; an encrypt always derives it from the caller's.
C12_DecryptOverride ==
    \A k \in 1 .. Len(calls) :
        LET c == calls[k]
        IN  c.iv # -1 =>
                /\ (c.rw = "FS_DECRYPT" /\ c.rec.found)
                       => c.iv = c.rec.lblk_num
                /\ (c.rw = "FS_DECRYPT" /\ ~c.rec.found) => c.iv = c.lblk_num
                /\ c.rw = "FS_ENCRYPT" => c.iv = c.lblk_num

\* a decrypt was handed one block number, the recovery index held another,
\* and the IV was derived
C12_OverrideTaken ==
    \E k \in 1 .. Len(calls) :
        /\ calls[k].rw = "FS_DECRYPT"
        /\ calls[k].rec.found
        /\ calls[k].rec.lblk_num # calls[k].lblk_num
        /\ calls[k].iv = calls[k].rec.lblk_num

\* C13: hashCrypt of a fingerprint is the sum of its bytes, each taken as an
\* unsigned integer 0..255, modulo 1024*1024 = 1,048,576.
RECURSIVE UnsignedSum(_, _)
UnsignedSum(finger, i) ==
    IF i > Len(finger) THEN 0 ELSE finger[i] + UnsignedSum(finger, i + 1)

C13_HashIsUnsignedSumModC ==
    \A k \in 1 .. Len(calls) :
        calls[k].hash = UnsignedSum(calls[k].finger, 1)
                            % (SourceTableFactor * SourceTableFactor)

\* C14: with the operations serialized, an encrypt that loads the index and
\* persists it without having changed it (its search hit, or its insert
\* found the index full) leaves the file record for record as it was.
C14_RoundTrip ==
    [][\A p \in Procs :
          (pc[p] = "enc_persist" /\ pc'[p] = "done" /\ op[p].insRet # 0)
          => citable' = citable]_vars

\* C15: an operation that has returned and had opened the backing file has
\* closed it, on every return path.
C15_OpenedThenClosed ==
    \A p \in Procs :
        (pc[p] = "done" /\ "open" \in op[p].work) => "close" \in op[p].work

\* C16: a live entry crypt_search returns holds the queried fingerprint in
\* every byte, and the slot a successful crypttable_insert wrote holds the
\* inserted fingerprint in every byte.
C16_BytewiseMatch ==
    /\ \A f \in Fingerprints :
          LET r == crypt_search(cryptArray, f)
          IN  (r.hit /\ Live(cryptArray[r.slot]))
                  => cryptArray[r.slot].fingerprint_crypt = f
    /\ \A k \in 1 .. Len(calls) :
          calls[k].ret = 0 =>
              \E s \in Slots :
                  /\ TableAfter(k)[s] # calls[k].before[s]
                  /\ TableAfter(k)[s].fingerprint_crypt = calls[k].finger

\* C17: with the operations serialized, when an encrypt skips the insert
\* because its search hit, the entry hit is live; and when a page-level
\* decrypt's search hit, the inode it resolves is not inode number 0.
C17_HitsAreLive ==
    \A p \in Procs :
        /\ (pc[p] = "enc_persist" /\ op[p].found)
               => Live(SearchItem(cryptArray, op[p].digest))
        /\ (Done(p, "decrypt_page") /\ op[p].found) => op[p].inode > 0

FirstNonLive(tbl, h) ==
    LET o == CHOOSE o \in 0 .. (DEDUP_TABLE_SIZE - 1) :
                 /\ ~Live(tbl[(h + o) % DEDUP_TABLE_SIZE])
                 /\ \A n \in 0 .. (o - 1) : Live(tbl[(h + n) % DEDUP_TABLE_SIZE])
    IN  (h + o) % DEDUP_TABLE_SIZE

C19_InsertChangesOneSlot ==
    \A k \in 1 .. Len(calls) :
        calls[k].ret = 0 =>
            LET b == calls[k].before
                a == TableAfter(k)
            IN  /\ LiveSlots(b) # Slots
                /\ {t \in Slots : a[t] # b[t]}
                       = {FirstNonLive(b, hashCrypt(calls[k].finger))}
                /\ a[FirstNonLive(b, hashCrypt(calls[k].finger))].ino
                       = calls[k].ino
                /\ \A t \in LiveSlots(b) : a[t] = b[t]

\* an insert found the slot its hash names live, probed on and returned 0
C19_InsertProbed ==
    \E k \in 1 .. Len(calls) :
        /\ calls[k].ret = 0
        /\ Live(calls[k].before[hashCrypt(calls[k].finger)])

\* C20: an encrypt whose cipher transform fails returns the error in the
\* same step, having neither opened the file nor reloaded, searched or
\* changed the index, and having written nothing to the file.
C20_CipherFailureSkipsPostStep ==
    [][\A p \in Procs :
          (/\ pc[p] = "idle"
           /\ pc'[p] = "done"
           /\ op'[p].kind = "encrypt"
           /\ op'[p].ret = "CipherError")
          => /\ op'[p].work = {}
             /\ op'[p].insRet = -1
             /\ cryptArray' = cryptArray
             /\ citable' = citable]_vars

\* the cipher has failed in an encrypt while the file holds a live entry
C20_CipherFailed ==
    \E p \in Procs :
        /\ Done(p, "encrypt")
        /\ op[p].ret = "CipherError"
        /\ LiveSlots(FileTable) # {}

====
